---- MODULE Spec2Model ----
(***************************************************************************)
(* Model of the multi-track loop playback engine of GrooveApp              *)
(* (src/unnamed/part_000, component starting at line 783).                 *)
(*                                                                         *)
(* JavaScript runs one task at a time: every action below is one           *)
(* synchronous run of a handler or of a promise continuation, up to its    *)
(* next await.  Event handlers are taken from the latest render, so they   *)
(* read the current React state; a continuation that resumes after an      *)
(* await keeps the state it captured when the handler was invoked          *)
(* (playableTracks and the muted flags inside playAll).  The useRef maps   *)
(* are shared and always current.                                          *)
(***************************************************************************)
EXTENDS Integers, Sequences, FiniteSets, TLC

\* Bounds of the model.
MaxTracks == 2        \* track ids handed out by addTrack (Date.now() values)
MaxPlays == 2         \* playAll invocations in one behaviour
NumInstruments == 2   \* instrument buttons taken from instrumentDefs
MaxToggles == 1       \* toggleMute calls in one behaviour
MaxBatch == 3         \* candidates of the start batch modelled in full
MaxCommits == 4       \* re-renders of one track's <audio> element modelled in full
MaxChanges == 2       \* changeBPM calls that changed the tempo in one behaviour
NumPageInstruments == 3 \* instrument buttons of src/src/app/page.tsx taken from instrumentDefs
MaxPageCalls == 2     \* addTrack calls of page.tsx awaiting generateTrack at one time

TrackIds == 1..MaxTracks
Instruments == 1..NumInstruments
NoNode == 0

\* Audio times are in milliseconds.
MAX_LOOP_DURATION == 10000
MIN_LOOP_DURATION == 8000

\* The tempo range of the controls (1747, 1757) and calculateOptimalDuration's
\* default time signature and musical floor (854, 862).
MinBPM == 60
MaxBPM == 200
DefaultBeats == 4
FloorSeconds == 10
CONSISTENT_DURATION == 10

BatchIds == 1..MaxBatch
NoBuffer == 0
\* Durations of decoded clips: below, at and above the two limits.
ClipDurations == {MIN_LOOP_DURATION - 1, MIN_LOOP_DURATION, MAX_LOOP_DURATION,
                  MAX_LOOP_DURATION + 1, 2 * MAX_LOOP_DURATION}

VARIABLES
  tracks,            \* useState<Track[]>: sequence of [id, name, url, muted]
  nextId,            \* next value of Date.now() used as a track id
  webAudioSupported, \* useState(false), set by the mount effect
  ctxState,          \* audioContextRef.current.state
  isPlayingAll,      \* useState(false)
  audioBuffers,      \* audioBuffersRef: set of track ids with a decoded buffer
  sourceNodes,       \* sourceNodesRef: track id -> batch of its source node, NoNode if absent
  gainNodes,         \* gainNodesRef: track id -> batch of the node its gain feeds, NoNode if absent
  voices,            \* audio graph: source nodes started and not stopped, [track, batch, gain]
  audioRefs,         \* audioRefs: track ids with a mounted <audio> element
  loopHandlers,      \* loopHandlers: track ids with a registered 'ended' handler
  elPlaying,         \* <audio> elements that are not paused
  elMuted,           \* <audio> elements whose muted property is true
  elTime,            \* <audio> elements whose currentTime is not 0
  adds,              \* addTrack invocations: track id -> "none" | "generating" | "loading" | "done",
                     \* or "voiceGenerating" for one made by a voice command
  plays,             \* playAll invocations, in invocation order
  decodable,         \* environment: track ids whose generated clip fetches and decodes
  revoked,           \* environment: track ids whose blob URL was revoked
  removed,           \* history: track ids passed to a successful removeTrack
  removedInFlight,   \* history: track ids removed while a fetch/decode for them was in flight
  toggles,           \* history: number of toggleMute calls so far
  \* playAll's start batch with playTrackWebAudio in full (lines 901-946, 1145-1178)
  playableTracks,    \* playAll's local: sequence of [id, muted]
  bufferDurations,   \* audioBuffersRef: track id -> duration of its AudioBuffer in ms, NoBuffer if absent
  startThrows,       \* environment: track ids for which playTrackWebAudio throws
  sources,           \* audio graph: the source nodes created and started, with their loop attributes
  batchPc,           \* "idle" | "start" | "done"
  \* one track's <audio> element with its event listeners (lines 1597-1665)
  audioEl,           \* [stage, ref, handler, ended, timeupdate, paused, time, pending]
  commits,           \* number of commits that re-ran its ref callback
  \* one call of calculateOptimalDuration (lines 854-870)
  bpm,               \* its argument
  optimalDuration,   \* its locals and result: [minBars, durationSeconds (in ms)], or NoDuration
  completion,        \* how the call ended: "none" (not called) | "number" | "NaN" | "InvalidTempo"
  \* the tempo control (lines 825, 1464-1475)
  currentBPM,        \* useState(120)
  history,           \* useState<string[]>: the entries changeBPM appended, [text, bpm]
  confirmAnswer,     \* the last changeBPM's confirm(): "none" (not shown) | "accepted" | "declined"
  generation,        \* the last generateTrack's request: [bpm, optimalDurationSeconds (in ms),
                     \* music_length_ms], or NoGeneration
  \* playAll's HTML5 fallback with each element's promise (lines 1180-1233)
  elementState,      \* candidate -> "absent" | "loading" | "loaded" before the fallback, then
                     \* the state of its promise: "pending" | "resolved" | "rejected"
  fallbackPc,        \* "idle" | "waiting" | "played" | "failed" | "skipped" | "done"
  playCommands,      \* the elements on which play() was called
  playResults,       \* element -> "none" | "playing" | "refused": how its play() promise settled
  \* the component of src/src/app/page.tsx (lines 36, 54-83, 99-103)
  pageTracks,        \* useState<Track[]>: sequence of [name, url, muted]
  pageCalls,         \* addTrack calls awaiting generateTrack: [inst, seen (the tracks of their render)]
  pageAdded          \* history: the instruments whose addTrack call has completed

\* The variables of the engine, and those of the start batch.
engineVars == <<tracks, nextId, webAudioSupported, ctxState, isPlayingAll, audioBuffers,
                sourceNodes, gainNodes, voices, audioRefs, loopHandlers, elPlaying, elMuted,
                elTime, adds, plays, decodable, revoked, removed, removedInFlight, toggles>>

batchVars == <<playableTracks, bufferDurations, startThrows, sources, batchPc>>

elementVars == <<audioEl, commits>>

durationVars == <<bpm, optimalDuration, completion>>

tempoVars == <<currentBPM, history, confirmAnswer, generation>>

fallbackVars == <<elementState, fallbackPc, playCommands, playResults>>

pageVars == <<pageTracks, pageCalls, pageAdded>>

unitVars == <<batchVars, elementVars, durationVars, tempoVars, fallbackVars, pageVars>>

vars == <<engineVars, unitVars>>

----------------------------------------------------------------------------
\* Helpers on the track list.

TrackIndex(trs, trackId) ==
  {i \in 1..Len(trs) : trs[i].id = trackId}

HasTrack(trs, trackId) == TrackIndex(trs, trackId) # {}

FindTrack(trs, trackId) == trs[CHOOSE i \in TrackIndex(trs, trackId) : TRUE]

IsPlayable(t) == t.url

\* playableTracks without the filter on url.
CandidatesAll(trs) ==
  [i \in 1..Len(trs) |-> [id |-> trs[i].id, muted |-> trs[i].muted]]

\* tracks.filter(t => t.url), keeping for each candidate what playAll reads later
Candidates(trs) ==
  LET sel == SelectSeq(trs, IsPlayable)
  IN [i \in 1..Len(sel) |-> [id |-> sel[i].id, muted |-> sel[i].muted]]

UrlIds(trs) == {trs[i].id : i \in {j \in 1..Len(trs) : trs[j].url}}

MutedUrlIds(trs) == {trs[i].id : i \in {j \in 1..Len(trs) : trs[j].url /\ trs[j].muted}}

CandIds(cands) == {cands[i].id : i \in 1..Len(cands)}

\* The Web Audio state the helpers below work on.
Graph == [bufs |-> audioBuffers, src |-> sourceNodes, gn |-> gainNodes, vs |-> voices]

----------------------------------------------------------------------------
\* loadAudioBuffer with a catch block that swallows the error unreported.
LoadAudioBufferSilent(bufs, log, trackId, ok) ==
  [bufs |-> IF ok THEN bufs \cup {trackId} ELSE bufs, log |-> log]

\* loadAudioBuffer, from the point where fetch/decode settles: a success
\* stores the buffer under trackId, a failure is logged with console.error.
LoadAudioBuffer(bufs, log, trackId, ok) ==
  IF ok
    THEN [bufs |-> bufs \cup {trackId}, log |-> log]
    ELSE [bufs |-> bufs, log |-> Append(log, trackId)]

\* playTrackWebAudio without lines 907-912: the existing source keeps playing.
PlayTrackWebAudioNoStop(g, trackId, muted, k) ==
  IF ~webAudioSupported \/ trackId \notin g.bufs THEN g
  ELSE [g EXCEPT !.src[trackId] = k,
                 !.gn[trackId] = k,
                 !.vs = @ \cup {[track |-> trackId, batch |-> k,
                                 gain |-> IF muted THEN 0 ELSE 1]}]

\* playTrackWebAudio(trackId, muted) run by playAll invocation k.
PlayTrackWebAudio(g, trackId, muted, k) ==
  IF ~webAudioSupported THEN g
  ELSE IF trackId \notin g.bufs THEN g
  ELSE LET existing == g.src[trackId]
           afterStop == IF existing # NoNode
                          THEN {n \in g.vs : ~(n.track = trackId /\ n.batch = existing)}
                          ELSE g.vs
           node == [track |-> trackId, batch |-> k, gain |-> IF muted THEN 0 ELSE 1]
       IN [g EXCEPT !.src[trackId] = k,
                    !.gn[trackId] = k,
                    !.vs = afterStop \cup {node}]

\* stopTrackWebAudio that leaves the source running.
StopTrackWebAudioKeep(g, trackId) == g

\* stopTrackWebAudio(trackId)
StopTrackWebAudio(g, trackId) ==
  IF g.src[trackId] # NoNode
    THEN [g EXCEPT !.vs = {n \in g.vs : ~(n.track = trackId /\ n.batch = g.src[trackId])},
                   !.src[trackId] = NoNode,
                   !.gn[trackId] = NoNode]
    ELSE g

\* toggleMuteWebAudio(trackId, muted)
ToggleMuteWebAudio(g, trackId, muted) ==
  IF g.gn[trackId] # NoNode
    THEN [g EXCEPT !.vs = {IF n.track = trackId /\ n.batch = g.gn[trackId]
                             THEN [n EXCEPT !.gain = IF muted THEN 0 ELSE 1]
                             ELSE n : n \in g.vs}]
    ELSE g

----------------------------------------------------------------------------
\* playAll, Web Audio branch.

\* The loop at 1154-1165 giving up after the first load it awaited.
NextMissingFirstOnly(cands, from, bufs) ==
  LET missing == {j \in from..Len(cands) : cands[j].id \notin bufs}
  IN IF missing = {} \/ from > 1 THEN 0
     ELSE CHOOSE j \in missing : \A m \in missing : j <= m

\* The for..of loop at 1154-1165 resumed at candidate `from`: the first
\* candidate without a cached buffer is the next one to await, 0 when the
\* loop runs to its end.
NextMissing(cands, from, bufs) ==
  LET missing == {j \in from..Len(cands) : cands[j].id \notin bufs}
  IN IF missing = {} THEN 0 ELSE CHOOSE j \in missing : \A m \in missing : j <= m

\* The start loop at 1170-1176 leaving after its first candidate.
StartBatchFirstOnly(g, cands, j, k) ==
  IF j > Len(cands) \/ cands[j].id \notin g.bufs THEN g
  ELSE PlayTrackWebAudio(g, cands[j].id, cands[j].muted, k)

\* playableTracks.forEach at 1170-1176
RECURSIVE StartBatch(_, _, _, _)
StartBatch(g, cands, j, k) ==
  IF j > Len(cands) THEN g
  ELSE StartBatch(IF cands[j].id \in g.bufs
                    THEN PlayTrackWebAudio(g, cands[j].id, cands[j].muted, k)
                    ELSE g,
                  cands, j + 1, k)

\* One synchronous run of invocation k (record p) from loop position `from`
\* to its next await or to its end.  resolved collects the candidates whose
\* buffer the loop has found cached; started is read off the audio graph.
RunLoop(p, from, g, k) ==
  LET j == NextMissing(p.cands, from, g.bufs)
      upto == IF j = 0 THEN Len(p.cands) ELSE j - 1
      seen == {p.cands[x].id : x \in from..upto} \cap g.bufs
  IN IF j # 0
       THEN [p |-> [p EXCEPT !.pc = "load", !.i = j,
                             !.live = p.cands[j].id \notin revoked,
                             !.resolved = @ \cup seen],
             g |-> g]
       ELSE LET g2 == StartBatch(g, p.cands, 1, k)
            IN [p |-> [p EXCEPT !.pc = "returning", !.i = 0, !.live = FALSE,
                                !.resolved = @ \cup seen,
                                !.started = {n.track : n \in {m \in g2.vs : m.batch = k}},
                                !.restarted = {id \in p.ids : g.src[id] # NoNode /\ g2.src[id] = k}],
                g |-> g2]

\* Lines 1145-1216: setIsPlayingAll(true), then the Web Audio branch or the
\* HTML5 fallback up to its first await.
AfterResume(p, g, k) ==
  IF webAudioSupported
    THEN RunLoop(p, 1, g, k)
    ELSE \* 1180-1216: collect the candidates' mounted elements and await
         \* their canplaythrough (or the 5 s timeout)
         LET els == {id \in p.ids : id \in audioRefs}
         IN [p |-> [p EXCEPT !.pc = IF els = {} THEN "returning" ELSE "ready", !.els = els],
             g |-> g]

\* The record of one playAll invocation: pc, the locals it keeps across its
\* awaits (cands is playableTracks, i the loop position, live whether the
\* url was still valid when the awaited fetch began) and what it has done so
\* far: ids (the candidates' ids), resolved, loaded and failedLoads (awaited
\* loads that succeeded and that failed), reports (console.error calls of those loads), started and
\* restarted (source nodes started by its batch, and those that replaced a
\* playing node), removedDuring and stopped (removeTrack of a candidate and
\* stopAll while it was awaiting), alerted (the no-track alert), els (the
\* <audio> elements the fallback collected in audioElements).
NewPlay(cands) ==
  [pc |-> "returning", cands |-> cands, ids |-> CandIds(cands), i |-> 0, live |-> FALSE,
   resolved |-> {}, loaded |-> {}, failedLoads |-> {}, reports |-> << >>, started |-> {},
   restarted |-> {}, removedDuring |-> {}, stopped |-> FALSE, alerted |-> FALSE,
   els |-> {}]

\* An invocation that has returned: its locals are gone.
DonePlay == [NewPlay(<< >>) EXCEPT !.pc = "done"]

\* A continuation of playAll is at its last statement: nothing else runs
\* before it returns.
Returning == \E k \in 1..Len(plays) : plays[k].pc = "returning"

Awaiting(p) == p.pc \in {"resume", "load", "ready", "played"}

\* The track whose fetch/decode invocation p is awaiting, if any.
LoadingId(p) == IF p.pc = "load" THEN {p.cands[p.i].id} ELSE {}

\* Number of fetch/decode operations in flight for trackId.
InFlight(trackId) ==
  (IF adds[trackId] = "loading" THEN 1 ELSE 0)
  + Cardinality({k \in 1..Len(plays) : trackId \in LoadingId(plays[k])})

\* Ref callbacks run at every commit: each track with a url has its element
\* in audioRefs and an 'ended' handler in loopHandlers.
Rendered(changed, trs, current) == IF changed THEN UrlIds(trs) ELSE current

----------------------------------------------------------------------------
\* playAll's start batch with playTrackWebAudio in full.

\* playTrackWebAudio 914-944 with the if at 923-926 left out.
CreateSourceNoClamp(trackId, duration, muted) ==
  [track |-> trackId, duration |-> duration, loop |-> TRUE, loopStart |-> 0,
   loopEnd |-> 0, offset |-> 0, gain |-> IF muted THEN 0 ELSE 1]

\* playTrackWebAudio 914-944: the source node created for a buffer of the
\* given duration.  loopStart and loopEnd keep their default 0 (loop over the
\* whole buffer) unless the buffer is longer than MAX_LOOP_DURATION;
\* source.start() has no argument, so playback begins at offset 0.
CreateSource(trackId, duration, muted) ==
  [track |-> trackId, duration |-> duration, loop |-> TRUE, loopStart |-> 0,
   loopEnd |-> IF duration > MAX_LOOP_DURATION THEN MAX_LOOP_DURATION ELSE 0,
   offset |-> 0, gain |-> IF muted THEN 0 ELSE 1]

\* playableTracks.forEach at 1170-1176 from candidate j on, with the nodes
\* started so far.  A throw of playTrackWebAudio leaves the forEach: the
\* candidates after it are not visited.
RECURSIVE StartEach(_, _, _, _, _)
StartEach(cands, j, bufs, throws, nodes) ==
  IF j > Len(cands) THEN [nodes |-> nodes, thrown |-> FALSE]
  ELSE IF bufs[cands[j].id] = NoBuffer
    THEN StartEach(cands, j + 1, bufs, throws, nodes)
  ELSE IF cands[j].id \in throws
    THEN [nodes |-> nodes, thrown |-> TRUE]
  ELSE StartEach(cands, j + 1, bufs, throws,
                 nodes \cup {CreateSource(cands[j].id, bufs[cands[j].id], cands[j].muted)})

IdleBatch ==
  /\ playableTracks = << >>
  /\ bufferDurations = << >>
  /\ startThrows = {}
  /\ sources = {}
  /\ batchPc = "idle"

\* A playAll that has passed its loading loop: every candidate has a url,
\* some have a decoded buffer.
InitBatch ==
  /\ \E m \in [BatchIds -> BOOLEAN] :
       playableTracks = [i \in BatchIds |-> [id |-> i, muted |-> m[i]]]
  /\ bufferDurations \in [BatchIds -> ClipDurations \cup {NoBuffer}]
  /\ startThrows \in SUBSET BatchIds
  /\ sources = {}
  /\ batchPc = "start"

\* playAll 1145-1178 and its catch at 1235-1238: setIsPlayingAll(true), the
\* start loop, and setIsPlayingAll(false) when the loop threw.
StartTracks ==
  /\ batchPc = "start"
  /\ LET r == StartEach(playableTracks, 1, bufferDurations, startThrows, {})
     IN /\ sources' = r.nodes
        /\ isPlayingAll' = ~r.thrown
  /\ batchPc' = "done"
  /\ UNCHANGED <<playableTracks, bufferDurations, startThrows>>
  /\ UNCHANGED <<elementVars, durationVars, tempoVars, fallbackVars, pageVars>>
  /\ UNCHANGED <<tracks, nextId, webAudioSupported, ctxState, audioBuffers, sourceNodes,
                 gainNodes, voices, audioRefs, loopHandlers, elPlaying, elMuted, elTime, adds,
                 plays, decodable, revoked, removed, removedInFlight, toggles>>

----------------------------------------------------------------------------
\* calculateOptimalDuration.  The code computes in doubles; here the same
\* quotients are taken exactly, over integers.  For every bpm of
\* MinBPM..MaxBPM the doubles give the same number of bars and the same
\* millisecond: 10 / secondsPerBar is an integer only where bpm is a multiple
\* of 24, where the double quotient is exact too, and no product lies at half
\* a millisecond.

\* Math.ceil(a / b) and Math.round(a / b) for positive integers a, b.
CeilDiv(a, b) == (a + b - 1) \div b
RoundDiv(a, b) == (2 * a + b) \div (2 * b)

NoDuration == [minBars |-> 0, durationSeconds |-> 0]

\* calculateOptimalDuration with Math.floor at 862.
CalculateFloorBars(tempo, beats) ==
  LET minBars == (FloorSeconds * tempo) \div (60 * beats)
  IN [minBars |-> minBars, durationSeconds |-> RoundDiv(minBars * 60 * beats * 1000, tempo)]

\* calculateOptimalDuration(bpm, timeSignature): secondsPerBar is
\* 60 * beats / tempo, minBars is ceil(10 / secondsPerBar) and the result is
\* round(minBars * secondsPerBar * 1000) / 1000, kept here in milliseconds.
\* A negative tempo makes secondsPerBar and minBars negative and their product
\* positive; tempo 0 makes secondsPerBar Infinity, minBars 0 and the product
\* NaN, which Completion reports.
CalculateOptimalDuration(tempo, beats) ==
  LET minBars == CeilDiv(FloorSeconds * tempo, 60 * beats)
  IN [minBars |-> minBars,
      durationSeconds |->
        IF tempo > 0 THEN RoundDiv(minBars * 60 * beats * 1000, tempo)
        ELSE IF tempo < 0 THEN RoundDiv((0 - minBars) * 60 * beats * 1000, 0 - tempo)
        ELSE 0]

\* How calculateOptimalDuration(tempo) ends: no statement of 854-870 throws
\* or tests its argument, so it returns at 869, a number unless the
\* arithmetic gave NaN.
Completion(tempo) == IF tempo = 0 THEN "NaN" ELSE "number"

IdleDuration ==
  /\ bpm = 120
  /\ optimalDuration = NoDuration
  /\ completion = "none"

InitDuration ==
  /\ bpm \in MinBPM..MaxBPM
  /\ optimalDuration = NoDuration
  /\ completion = "none"

\* calculateOptimalDuration as a function of any integer tempo.
InitAnyDuration ==
  /\ bpm \in (0 - MaxBPM)..MaxBPM
  /\ optimalDuration = NoDuration
  /\ completion = "none"

\* getCurrentDuration (873-877) or generateTrack (999) calls
\* calculateOptimalDuration(currentBPM).
Calculate ==
  /\ completion = "none"
  /\ optimalDuration' = CalculateOptimalDuration(bpm, DefaultBeats)
  /\ completion' = Completion(bpm)
  /\ UNCHANGED bpm
  /\ UNCHANGED <<engineVars, batchVars, elementVars, tempoVars, fallbackVars, pageVars>>

----------------------------------------------------------------------------
\* The tempo control.  bpmQuickPresets are the preset buttons at 1766; the -
\* and + buttons pass the tempo ten below or above, kept within 60..200
\* (1747, 1757).
bpmQuickPresets == {80, 100, 120, 140}

NewTempi(current) ==
  bpmQuickPresets \cup {IF current - 10 < MinBPM THEN MinBPM ELSE current - 10,
                        IF current + 10 > MaxBPM THEN MaxBPM ELSE current + 10}

NoGeneration == [bpm |-> 0, optimalDurationSeconds |-> 0, music_length_ms |-> 0]

InitTempoControl ==
  /\ currentBPM = 120
  /\ history = << >>
  /\ confirmAnswer = "none"
  /\ generation = NoGeneration

\* changeBPM asks only when some track has a url (1465).
ConfirmShown(trs) == UrlIds(trs) # {}

\* changeBPM without the test of confirm()'s result at 1467.
TempoAppliedAlways(trs, confirmed) == TRUE

\* Whether changeBPM reaches setCurrentBPM: at 1468 when the user accepted,
\* at 1472 when nothing was asked.
TempoApplied(trs, confirmed) == ~ConfirmShown(trs) \/ confirmed

\* changeBPM(newBPM), from a preset or the - and + buttons; confirmed is what
\* confirm() returns if it is shown.  The commit after setCurrentBPM and
\* setHistory re-runs the ref callbacks of the mounted elements.
ChangeBPM(newBPM, confirmed) ==
  /\ ~Returning
  /\ Len(history) < MaxChanges
  /\ confirmAnswer' = IF ~ConfirmShown(tracks) THEN "none"
                      ELSE IF confirmed THEN "accepted" ELSE "declined"
  /\ IF TempoApplied(tracks, confirmed)
       THEN /\ currentBPM' = newBPM
            /\ history' = Append(history, [text |-> IF ConfirmShown(tracks) THEN "Changed tempo to"
                                                     ELSE "Set tempo to",
                                           bpm |-> newBPM])
            /\ loopHandlers' = Rendered(TRUE, tracks, loopHandlers)
       ELSE UNCHANGED <<currentBPM, history, loopHandlers>>
  /\ UNCHANGED generation
  /\ UNCHANGED <<tracks, nextId, webAudioSupported, ctxState, isPlayingAll, audioBuffers,
                 sourceNodes, gainNodes, voices, audioRefs, elPlaying, elMuted, elTime, adds,
                 plays, decodable, revoked, removed, removedInFlight, toggles>>
  /\ UNCHANGED <<batchVars, elementVars, durationVars, fallbackVars, pageVars>>

\* generateTrack up to its request (967-1021): optimalDurationSeconds is
\* calculated from currentBPM at 999 and logged at 1014; the body's
\* music_length_ms is durationMs = Math.round(CONSISTENT_DURATION * 1000)
\* (1002-1007).
GenerateTrack ==
  /\ generation' =
       [bpm |-> currentBPM,
        optimalDurationSeconds |-> CalculateOptimalDuration(currentBPM, DefaultBeats).durationSeconds,
        music_length_ms |-> CONSISTENT_DURATION * 1000]
  /\ UNCHANGED <<currentBPM, history, confirmAnswer>>
  /\ UNCHANGED <<engineVars, batchVars, elementVars, durationVars, fallbackVars, pageVars>>

----------------------------------------------------------------------------
\* playAll's HTML5 fallback, with one promise per prepared element.  The
\* candidates are BatchIds; "absent" ones have no element in audioRefs and
\* are not collected into audioElements (1185-1192).
IdleFallback ==
  /\ elementState = [e \in BatchIds |-> "absent"]
  /\ fallbackPc = "idle"
  /\ playCommands = {}
  /\ playResults = [e \in BatchIds |-> "none"]

\* A fallback playAll about to prepare its elements: each candidate's element
\* is absent, still loading, or has readyState >= 4.
InitFallbackStart ==
  /\ elementState \in [BatchIds -> {"absent", "loading", "loaded"}]
  /\ fallbackPc = "idle"
  /\ playCommands = {}
  /\ playResults = [e \in BatchIds |-> "none"]

AudioElements(st) == {e \in BatchIds : st[e] # "absent"}

\* Promise.race in place of Promise.all at 1198: settled by the first
\* promise that settles.
PromiseRace(st) ==
  IF \E e \in AudioElements(st) : st[e] = "rejected" THEN "rejected"
  ELSE IF \E e \in AudioElements(st) : st[e] = "resolved" THEN "resolved"
  ELSE "pending"

\* Promise.all over the elements' promises (1198-1216): rejected once one of
\* them is, resolved when all are.
PromiseAll(st) ==
  IF \E e \in AudioElements(st) : st[e] = "rejected" THEN "rejected"
  ELSE IF \A e \in AudioElements(st) : st[e] = "resolved" THEN "resolved"
  ELSE "pending"

\* playAll after the await at 1198, given what the awaited promise became:
\* play() on every collected element (1220-1225), or the catch at 1229.
FallbackAfter(st, pc, cmds) ==
  IF pc # "waiting" THEN [pc |-> pc, cmds |-> cmds]
  ELSE IF PromiseAll(st) = "resolved" THEN [pc |-> "played", cmds |-> AudioElements(st)]
  ELSE IF PromiseAll(st) = "rejected" THEN [pc |-> "failed", cmds |-> cmds]
  ELSE [pc |-> "waiting", cmds |-> cmds]

FallbackFrame ==
  /\ UNCHANGED <<engineVars, batchVars, elementVars, durationVars, tempoVars, pageVars>>

\* Promise.all(playPromises) at 1227: every play() promise settles, a
\* rejected one through its catch at 1221-1224.
PlaysSettled(cmds, results) == \A e \in cmds : results[e] # "none"

\* playAll's fallback from 1180 to the await at 1198: the promise of an
\* element with readyState >= 4 is resolved at once (1210-1213), the others
\* wait for canplaythrough or for their 5 s timer.  Without elements nothing
\* is awaited or played (1195).
FallbackPrepare ==
  /\ FallbackFrame
  /\ UNCHANGED playResults
  /\ fallbackPc = "idle"
  /\ LET st == [e \in BatchIds |->
                 IF elementState[e] = "loaded" THEN "resolved"
                 ELSE IF elementState[e] = "loading" THEN "pending" ELSE "absent"]
         r == FallbackAfter(st, IF AudioElements(st) = {} THEN "skipped" ELSE "waiting", {})
     IN /\ elementState' = st
        /\ fallbackPc' = r.pc
        /\ playCommands' = r.cmds

\* Element e fires canplaythrough: its listener clears the timer and
\* resolves the promise (1205-1208).
FallbackCanPlayThrough(e) ==
  /\ FallbackFrame
  /\ UNCHANGED playResults
  /\ fallbackPc # "idle"
  /\ elementState[e] = "pending"
  /\ elementState' = [elementState EXCEPT ![e] = "resolved"]
  /\ LET r == FallbackAfter(elementState', fallbackPc, playCommands)
     IN /\ fallbackPc' = r.pc
        /\ playCommands' = r.cmds

\* Element e's 5 s timer fires first and rejects its promise (1201-1203).
FallbackTimeout(e) ==
  /\ FallbackFrame
  /\ UNCHANGED playResults
  /\ fallbackPc # "idle"
  /\ elementState[e] = "pending"
  /\ elementState' = [elementState EXCEPT ![e] = "rejected"]
  /\ LET r == FallbackAfter(elementState', fallbackPc, playCommands)
     IN /\ fallbackPc' = r.pc
        /\ playCommands' = r.cmds

\* The play() promise of element e settles: the element plays, or the
\* browser refused and the catch at 1221 logged it.  playAll returns when
\* all have settled (1227-1228).
FallbackPlaySettle(e, ok) ==
  /\ FallbackFrame
  /\ fallbackPc = "played"
  /\ e \in playCommands
  /\ playResults[e] = "none"
  /\ playResults' = [playResults EXCEPT ![e] = IF ok THEN "playing" ELSE "refused"]
  /\ fallbackPc' = IF PlaysSettled(playCommands, playResults') THEN "done" ELSE fallbackPc
  /\ UNCHANGED <<elementState, playCommands>>

----------------------------------------------------------------------------
\* The component of src/src/app/page.tsx.  Its list starts with one track
\* named "Drums" (36), written 0 here; the instruments are 1..NumPageInstruments.
Drums == 0

PageInstruments == 1..NumPageInstruments

InitPage ==
  /\ pageTracks = <<[name |-> Drums, url |-> FALSE, muted |-> FALSE]>>
  /\ pageCalls = {}
  /\ pageAdded = {}

PageNames(trs) == {trs[i].name : i \in 1..Len(trs)}

PageFrame ==
  /\ UNCHANGED <<engineVars, batchVars, elementVars, durationVars, tempoVars, fallbackVars>>

\* addTrack(inst) of page.tsx up to its await of generateTrack (76-78): the
\* call keeps the tracks of the render it was made in.
PageAddTrack(inst) ==
  /\ PageFrame
  /\ inst \notin PageNames(pageTracks)
  /\ Cardinality(pageCalls) < MaxPageCalls
  /\ \A c \in pageCalls : c.inst # inst
  /\ pageCalls' = pageCalls \cup {[inst |-> inst, seen |-> pageTracks]}
  /\ UNCHANGED <<pageTracks, pageAdded>>

\* addTrack(inst) for a name already in the list: the if at 77 is false.
PageAddTrackDuplicate(inst) ==
  /\ PageFrame
  /\ inst \in PageNames(pageTracks)
  /\ UNCHANGED <<pageTracks, pageCalls, pageAdded>>

\* generateTrack of call c resolved, with a url or with null (54-74), and
\* addTrack ran setTracks([...tracks, newTrack]) at 80.
PageGenerateSettle(c, hasUrl) ==
  /\ PageFrame
  /\ c \in pageCalls
  /\ pageTracks' = Append(c.seen, [name |-> c.inst, url |-> hasUrl, muted |-> FALSE])
  /\ pageCalls' = pageCalls \ {c}
  /\ pageAdded' = pageAdded \cup {c.inst}

\* toggleMute of the i-th listed track (99-103).
PageToggleMute(i) ==
  /\ PageFrame
  /\ i \in 1..Len(pageTracks)
  /\ pageTracks' = [pageTracks EXCEPT ![i].muted = ~@]
  /\ UNCHANGED <<pageCalls, pageAdded>>

----------------------------------------------------------------------------
\* One track's <audio> element and its listeners.  stage: "absent" (the track
\* has no url yet), "mounted", "removed"; ref: audioRefs has the element;
\* handler: loopHandlers has its 'ended' handler; ended, timeupdate: number of
\* listeners of that type attached to the element; paused; time: whether
\* currentTime is past 0; pending: a fallback playAll holds the element in
\* audioElements and has not called play() yet.

\* ref callback called with the element (1598-1651).
RefAttach(e) ==
  IF e.handler
    THEN [e EXCEPT !.ref = TRUE]
    ELSE [e EXCEPT !.ref = TRUE, !.handler = TRUE, !.ended = @ + 1, !.timeupdate = @ + 1]

\* ref callback called with null (1653-1664).
RefDetach(e) ==
  [e EXCEPT !.ref = FALSE,
            !.handler = FALSE,
            !.ended = IF e.handler /\ e.ref THEN @ - 1 ELSE @]

\* A commit of the component: the ref prop is a new function at every render,
\* so React calls the old one with null and the new one with the element.
Commit(e) == RefAttach(RefDetach(e))

\* audio.pause(); audio.currentTime = 0; and the removal of the stored 'ended'
\* handler, as stopAll (1262-1271) and removeTrack (1305-1313) do it.
PauseAndUnloop(e) ==
  IF e.ref
    THEN [e EXCEPT !.paused = TRUE, !.time = FALSE,
                   !.handler = FALSE,
                   !.ended = IF e.handler THEN @ - 1 ELSE @]
    ELSE e

InitElement ==
  /\ audioEl = [stage |-> "absent", ref |-> FALSE, handler |-> FALSE, ended |-> 0,
                timeupdate |-> 0, paused |-> TRUE, time |-> FALSE, pending |-> FALSE]
  /\ commits = 0

\* What the steps of the element leave alone.
ElFrame ==
  /\ UNCHANGED <<tracks, nextId, webAudioSupported, ctxState, audioBuffers, sourceNodes,
                 gainNodes, voices, audioRefs, loopHandlers, elPlaying, elMuted, elTime,
                 adds, plays, decodable, revoked, removed, removedInFlight, toggles>>
  /\ UNCHANGED <<batchVars, durationVars, tempoVars, fallbackVars, pageVars>>

\* generateTrack resolved with a url: the <audio> element is rendered.
ElMount ==
  /\ ElFrame
  /\ audioEl.stage = "absent"
  /\ audioEl' = RefAttach([audioEl EXCEPT !.stage = "mounted"])
  /\ UNCHANGED <<commits, isPlayingAll>>

\* Any other state change re-renders the component.
ElRerender ==
  /\ ElFrame
  /\ audioEl.stage = "mounted"
  /\ commits < MaxCommits
  /\ audioEl' = Commit(audioEl)
  /\ commits' = commits + 1
  /\ UNCHANGED isPlayingAll

\* The user presses play on the element's native controls (1667), which
\* take no pointer events while isPlayingAll (1669-1670).
ElUserPlay ==
  /\ ElFrame
  /\ audioEl.stage = "mounted"
  /\ ~isPlayingAll
  /\ audioEl.paused
  /\ audioEl' = [audioEl EXCEPT !.paused = FALSE]
  /\ UNCHANGED <<commits, isPlayingAll>>

\* playAll, for this element, up to its first await: pause and rewind
\* (1134-1135), setIsPlayingAll(true), and the commit that follows when
\* isPlayingAll changes.  In the fallback it then holds the element in
\* audioElements across its await at 1198.
ElPlayAll ==
  /\ ElFrame
  /\ audioEl.stage = "mounted"
  /\ ~audioEl.pending
  /\ commits < MaxCommits
  /\ isPlayingAll' = TRUE
  /\ LET held == [audioEl EXCEPT !.paused = TRUE, !.time = FALSE,
                                 !.pending = ~webAudioSupported]
     IN audioEl' = IF isPlayingAll THEN held ELSE Commit(held)
  /\ commits' = IF isPlayingAll THEN commits ELSE commits + 1

\* That playAll after its Promise.all settled: play() on the element it
\* holds (1220-1225) when ok, nothing when the 5 s timeout rejected.
ElCanPlay(ok) ==
  /\ ElFrame
  /\ audioEl.pending
  /\ audioEl' = [audioEl EXCEPT !.pending = FALSE, !.paused = IF ok THEN FALSE ELSE @]
  /\ UNCHANGED <<commits, isPlayingAll>>

\* The playing element moves on.
ElTimeAdvance ==
  /\ ElFrame
  /\ ~audioEl.paused
  /\ ~audioEl.time
  /\ audioEl' = [audioEl EXCEPT !.time = TRUE]
  /\ UNCHANGED <<commits, isPlayingAll>>

\* stopAll (1241-1274) for this element, and the commit that follows when
\* isPlayingAll changes.
ElStopAll ==
  /\ ElFrame
  /\ audioEl.stage = "mounted"
  /\ commits < MaxCommits
  /\ isPlayingAll' = FALSE
  /\ audioEl' = IF isPlayingAll THEN Commit(PauseAndUnloop(audioEl))
                 ELSE PauseAndUnloop(audioEl)
  /\ commits' = IF isPlayingAll THEN commits + 1 ELSE commits

\* removeTrack (1301-1322) for this element, and its unmount.
ElRemoveTrack ==
  /\ ElFrame
  /\ audioEl.stage = "mounted"
  /\ audioEl' = RefDetach([PauseAndUnloop(audioEl) EXCEPT !.ref = FALSE, !.stage = "removed"])
  /\ UNCHANGED <<commits, isPlayingAll>>

----------------------------------------------------------------------------
\* The state after construction, but for what the mount effect at 804-814 sets.
InitComponent ==
  /\ tracks = << >>
  /\ nextId = 1
  /\ elTime = {}
  /\ isPlayingAll = FALSE
  /\ audioBuffers = {}
  /\ sourceNodes = [id \in TrackIds |-> NoNode]
  /\ gainNodes = [id \in TrackIds |-> NoNode]
  /\ voices = {}
  /\ audioRefs = {}
  /\ loopHandlers = {}
  /\ elPlaying = {}
  /\ elMuted = {}
  /\ adds = [id \in TrackIds |-> "none"]
  /\ plays = << >>
  /\ decodable = {}
  /\ revoked = {}
  /\ removed = {}
  /\ removedInFlight = {}
  /\ toggles = 0

\* The mount effect found AudioContext and created one.
InitEngine ==
  /\ webAudioSupported = TRUE
  /\ ctxState = "suspended"
  /\ InitComponent

\* The mount effect found no AudioContext, or its constructor threw:
\* audioContextRef stays null.
InitFallback ==
  /\ webAudioSupported = FALSE
  /\ ctxState = "none"
  /\ InitComponent

Init == InitEngine /\ IdleBatch /\ InitElement /\ IdleDuration /\ InitTempoControl /\ IdleFallback /\ InitPage

\* addTrack(inst) up to its await of generateTrack.
AddTrack(inst) ==
  /\ ~Returning
  /\ UNCHANGED unitVars
  /\ \A i \in 1..Len(tracks) : tracks[i].name # inst
  /\ nextId <= MaxTracks
  /\ tracks' = Append(tracks, [id |-> nextId, name |-> inst, url |-> FALSE, muted |-> FALSE])
  /\ nextId' = nextId + 1
  /\ adds' = [adds EXCEPT ![nextId] = "generating"]
  /\ loopHandlers' = Rendered(TRUE, tracks', loopHandlers)
  /\ audioRefs' = Rendered(TRUE, tracks', audioRefs)
  /\ UNCHANGED <<webAudioSupported, ctxState, isPlayingAll, audioBuffers, sourceNodes,
                 gainNodes, voices, elPlaying, elMuted, elTime, plays, decodable, revoked,
                 removed, removedInFlight,
                 toggles>>

\* addTrack(inst) for a name already in the list: the if at 1074 is false.
AddTrackDuplicate(inst) ==
  /\ ~Returning
  /\ UNCHANGED unitVars
  /\ \E i \in 1..Len(tracks) : tracks[i].name = inst
  /\ UNCHANGED <<tracks, nextId, webAudioSupported, ctxState, isPlayingAll, audioBuffers,
                 sourceNodes, gainNodes, voices, audioRefs, loopHandlers, elPlaying,
                 elMuted, elTime, adds, plays, decodable, revoked, removed, removedInFlight,
                 toggles>>

\* addTrack after generateTrack resolved with a url (hasUrl) or null, up to
\* its await of loadAudioBuffer.  dec: whether the clip behind the url
\* fetches and decodes.
GenerateSettle(trackId, hasUrl, dec) ==
  /\ ~Returning
  /\ UNCHANGED unitVars
  /\ adds[trackId] = "generating"
  /\ dec => hasUrl
  /\ tracks' = [i \in 1..Len(tracks) |->
                  IF tracks[i].id = trackId THEN [tracks[i] EXCEPT !.url = hasUrl] ELSE tracks[i]]
  /\ adds' = [adds EXCEPT ![trackId] = IF hasUrl /\ webAudioSupported THEN "loading" ELSE "done"]
  /\ decodable' = IF dec THEN decodable \cup {trackId} ELSE decodable
  /\ audioRefs' = Rendered(TRUE, tracks', audioRefs)
  /\ loopHandlers' = Rendered(TRUE, tracks', loopHandlers)
  /\ elMuted' = MutedUrlIds(tracks')
  /\ UNCHANGED <<nextId, webAudioSupported, ctxState, isPlayingAll, audioBuffers,
                 sourceNodes, gainNodes, voices, elPlaying, elTime, plays, revoked, removed,
                 removedInFlight,
                 toggles>>

\* addTrack after its loadAudioBuffer settled (1100-1107).
AddLoadSettle(trackId) ==
  /\ ~Returning
  /\ UNCHANGED unitVars
  /\ adds[trackId] = "loading"
  /\ audioBuffers' = LoadAudioBuffer(audioBuffers, << >>, trackId, trackId \in decodable).bufs
  /\ adds' = [adds EXCEPT ![trackId] = "done"]
  /\ audioRefs' = Rendered(TRUE, tracks, audioRefs)
  /\ loopHandlers' = Rendered(TRUE, tracks, loopHandlers)
  /\ UNCHANGED <<tracks, nextId, webAudioSupported, ctxState, isPlayingAll, sourceNodes,
                 gainNodes, voices, elPlaying, elMuted, elTime, plays, decodable, revoked,
                 removed, removedInFlight,
                 toggles>>

\* The tracks that the addTrack called by rec.onresult reads.  The effect at
\* 1329 has the dependencies [] (1450), so onresult keeps the addTrack of the
\* first render, whose tracks is the initial useState value (785) and whose
\* webAudioSupported is false (835).
VoiceTracks(trs) == << >>

\* rec.onresult for a command that names inst without a style word
\* (1337-1438): addTrack(matchedInstrument, undefined) up to its await of
\* generateTrack.
VoiceAddTrack(inst) ==
  /\ ~Returning
  /\ UNCHANGED unitVars
  /\ LET seen == VoiceTracks(tracks)
     IN \A i \in 1..Len(seen) : seen[i].name # inst
  /\ nextId <= MaxTracks
  /\ tracks' = Append(tracks, [id |-> nextId, name |-> inst, url |-> FALSE, muted |-> FALSE])
  /\ nextId' = nextId + 1
  /\ adds' = [adds EXCEPT ![nextId] = "voiceGenerating"]
  /\ loopHandlers' = Rendered(TRUE, tracks', loopHandlers)
  /\ audioRefs' = Rendered(TRUE, tracks', audioRefs)
  /\ UNCHANGED <<webAudioSupported, ctxState, isPlayingAll, audioBuffers, sourceNodes,
                 gainNodes, voices, elPlaying, elMuted, elTime, plays, decodable, revoked,
                 removed, removedInFlight, toggles>>

\* The same addTrack after generateTrack resolved: its webAudioSupported is
\* false, so it skips loadAudioBuffer at 1099.
VoiceGenerateSettle(trackId, hasUrl, dec) ==
  /\ ~Returning
  /\ UNCHANGED unitVars
  /\ adds[trackId] = "voiceGenerating"
  /\ dec => hasUrl
  /\ tracks' = [i \in 1..Len(tracks) |->
                  IF tracks[i].id = trackId THEN [tracks[i] EXCEPT !.url = hasUrl] ELSE tracks[i]]
  /\ adds' = [adds EXCEPT ![trackId] = "done"]
  /\ decodable' = IF dec THEN decodable \cup {trackId} ELSE decodable
  /\ audioRefs' = Rendered(TRUE, tracks', audioRefs)
  /\ loopHandlers' = Rendered(TRUE, tracks', loopHandlers)
  /\ elMuted' = MutedUrlIds(tracks')
  /\ UNCHANGED <<nextId, webAudioSupported, ctxState, isPlayingAll, audioBuffers,
                 sourceNodes, gainNodes, voices, elPlaying, elTime, plays, revoked, removed,
                 removedInFlight, toggles>>

\* playAll() from its invocation to its first await (or to its end).
PlayAll ==
  /\ ~Returning
  /\ UNCHANGED unitVars
  /\ Len(plays) < MaxPlays
  /\ LET k == Len(plays) + 1
         cands == Candidates(tracks)
         p0 == NewPlay(cands)
         paused == {id \in UrlIds(tracks) : id \in audioRefs}
     IN IF Len(cands) = 0
          THEN \* 1121-1125: alert and return
               /\ plays' = Append(plays, [p0 EXCEPT !.alerted = TRUE])
               /\ UNCHANGED <<isPlayingAll, audioBuffers, sourceNodes, gainNodes, voices,
                              elPlaying, elTime, loopHandlers>>
          ELSE IF ctxState = "suspended"
            THEN \* 1129-1142: pause the HTML5 elements, await resume()
                 /\ plays' = Append(plays, [p0 EXCEPT !.pc = "resume"])
                 /\ elPlaying' = elPlaying \ paused
                 /\ elTime' = elTime \ paused
                 /\ UNCHANGED <<isPlayingAll, audioBuffers, sourceNodes, gainNodes, voices,
                                loopHandlers>>
            ELSE LET r == AfterResume(p0, Graph, k)
                 IN /\ plays' = Append(plays, r.p)
                    /\ elPlaying' = elPlaying \ paused
                    /\ elTime' = elTime \ paused
                    /\ isPlayingAll' = TRUE
                    /\ audioBuffers' = r.g.bufs
                    /\ sourceNodes' = r.g.src
                    /\ gainNodes' = r.g.gn
                    /\ voices' = r.g.vs
                    /\ loopHandlers' = Rendered(~isPlayingAll, tracks, loopHandlers)
  /\ UNCHANGED <<tracks, nextId, webAudioSupported, ctxState, audioRefs, elMuted, adds,
                 decodable, revoked, removed, removedInFlight,
                 toggles>>

\* playAll invocation k after audioContext.resume() resolved (1142-1178).
ResumeSettle(k) ==
  /\ ~Returning
  /\ UNCHANGED unitVars
  /\ k \in 1..Len(plays)
  /\ plays[k].pc = "resume"
  /\ ctxState' = "running"
  /\ isPlayingAll' = TRUE
  /\ LET r == AfterResume(plays[k], Graph, k)
     IN /\ plays' = [plays EXCEPT ![k] = r.p]
        /\ audioBuffers' = r.g.bufs
        /\ sourceNodes' = r.g.src
        /\ gainNodes' = r.g.gn
        /\ voices' = r.g.vs
  /\ loopHandlers' = Rendered(~isPlayingAll, tracks, loopHandlers)
  /\ UNCHANGED <<tracks, nextId, webAudioSupported, audioRefs, elPlaying, elMuted, elTime, adds,
                 decodable, revoked, removed, removedInFlight,
                 toggles>>

\* playAll invocation k after the loadAudioBuffer it awaits settled
\* (880-898, then 1161-1178).  The fetch succeeds when the url was not yet
\* revoked when the fetch began and the clip decodes.
PlayLoadSettle(k) ==
  /\ ~Returning
  /\ UNCHANGED unitVars
  /\ k \in 1..Len(plays)
  /\ plays[k].pc = "load"
  /\ LET p == plays[k]
         trackId == p.cands[p.i].id
         ok == p.live /\ trackId \in decodable
         ld == LoadAudioBuffer(audioBuffers, p.reports, trackId, ok)
         p1 == [p EXCEPT !.reports = ld.log,
                         !.resolved = @ \cup {trackId},
                         !.loaded = IF ok THEN @ \cup {trackId} ELSE @,
                         !.failedLoads = IF ok THEN @ ELSE @ \cup {trackId}]
         r == RunLoop(p1, p.i + 1, [Graph EXCEPT !.bufs = ld.bufs], k)
     IN /\ plays' = [plays EXCEPT ![k] = r.p]
        /\ audioBuffers' = r.g.bufs
        /\ sourceNodes' = r.g.src
        /\ gainNodes' = r.g.gn
        /\ voices' = r.g.vs
  /\ UNCHANGED <<tracks, nextId, webAudioSupported, ctxState, isPlayingAll, audioRefs,
                 loopHandlers, elPlaying, elMuted, elTime, adds, decodable, revoked, removed,
                 removedInFlight,
                 toggles>>

\* playAll invocation k, HTML5 fallback, after the Promise.all at 1198-1216
\* settled: resolved (ok: every element reported canplaythrough) or rejected
\* by a 5 s timeout.  On success it calls play() on every element it
\* collected, mounted or not by now, and awaits the play promises.
CanPlaySettle(k, ok) ==
  /\ ~Returning
  /\ UNCHANGED unitVars
  /\ k \in 1..Len(plays)
  /\ plays[k].pc = "ready"
  /\ plays' = [plays EXCEPT ![k].pc = IF ok THEN "played" ELSE "returning"]
  /\ elPlaying' = IF ok THEN elPlaying \cup plays[k].els ELSE elPlaying
  /\ UNCHANGED <<tracks, nextId, webAudioSupported, ctxState, isPlayingAll, audioBuffers,
                 sourceNodes, gainNodes, voices, audioRefs, loopHandlers, elMuted, elTime,
                 adds, decodable, revoked, removed, removedInFlight, toggles>>

\* playAll invocation k after the play promises settled (1227-1228).
PlaySettle(k) ==
  /\ ~Returning
  /\ UNCHANGED unitVars
  /\ k \in 1..Len(plays)
  /\ plays[k].pc = "played"
  /\ plays' = [plays EXCEPT ![k].pc = "returning"]
  /\ UNCHANGED <<tracks, nextId, webAudioSupported, ctxState, isPlayingAll, audioBuffers,
                 sourceNodes, gainNodes, voices, audioRefs, loopHandlers, elPlaying,
                 elMuted, elTime, adds, decodable, revoked, removed, removedInFlight,
                 toggles>>

\* Time passes: the playing <audio> elements leave position 0.
TimeAdvance ==
  /\ ~Returning
  /\ UNCHANGED unitVars
  /\ elPlaying \ elTime # {}
  /\ elTime' = elTime \cup elPlaying
  /\ UNCHANGED <<tracks, nextId, webAudioSupported, ctxState, isPlayingAll, audioBuffers,
                 sourceNodes, gainNodes, voices, audioRefs, loopHandlers, elPlaying,
                 elMuted, adds, plays, decodable, revoked, removed, removedInFlight,
                 toggles>>

\* tracks.forEach(track => stopTrackWebAudio(track.id)) at 1248-1250
RECURSIVE StopTracks(_, _, _)
StopTracks(g, trs, j) ==
  IF j > Len(trs) THEN g
  ELSE StopTracks(StopTrackWebAudio(g, trs[j].id), trs, j + 1)

\* stopAll()
StopAll ==
  LET g == IF webAudioSupported THEN StopTracks(Graph, tracks, 1) ELSE Graph
      els == {id \in UrlIds(tracks) : id \in audioRefs}
  IN /\ ~Returning
     /\ UNCHANGED unitVars
     /\ isPlayingAll' = FALSE
     /\ sourceNodes' = g.src
     /\ gainNodes' = g.gn
     /\ voices' = g.vs
     /\ elPlaying' = elPlaying \ els
     /\ elTime' = elTime \ els
     /\ loopHandlers' = Rendered(isPlayingAll, tracks, loopHandlers \ els)
     /\ plays' = [k \in 1..Len(plays) |->
                    IF Awaiting(plays[k]) THEN [plays[k] EXCEPT !.stopped = TRUE] ELSE plays[k]]
        /\ UNCHANGED <<tracks, nextId, webAudioSupported, ctxState, audioBuffers, audioRefs,
                    elMuted, adds, decodable, revoked, removed, removedInFlight,
                 toggles>>

\* toggleMute(trackId), clicked on the mute button of a listed track.
ToggleMute(trackId) ==
  /\ ~Returning
  /\ UNCHANGED unitVars
  /\ HasTrack(tracks, trackId)
  /\ toggles < MaxToggles
  /\ LET track == FindTrack(tracks, trackId)
         newMutedState == ~track.muted
         viaGain == isPlayingAll /\ webAudioSupported
         g == IF viaGain THEN ToggleMuteWebAudio(Graph, trackId, newMutedState) ELSE Graph
         direct == IF ~viaGain /\ trackId \in audioRefs
                     THEN IF newMutedState THEN elMuted \cup {trackId} ELSE elMuted \ {trackId}
                     ELSE elMuted
     IN /\ tracks' = [i \in 1..Len(tracks) |->
                        IF tracks[i].id = trackId
                          THEN [tracks[i] EXCEPT !.muted = newMutedState] ELSE tracks[i]]
        /\ voices' = g.vs
        \* the commit then applies muted={track.muted} to the mounted elements
        /\ elMuted' = (direct \ UrlIds(tracks')) \cup MutedUrlIds(tracks')
  /\ loopHandlers' = Rendered(TRUE, tracks', loopHandlers)
  /\ toggles' = toggles + 1
  /\ UNCHANGED <<nextId, webAudioSupported, ctxState, isPlayingAll, audioBuffers,
                 sourceNodes, gainNodes, audioRefs, elPlaying, elTime, adds, plays,
                 decodable, revoked, removed, removedInFlight>>

\* What removeTrack and stopTrackWebAudio read and write, as one value; threw
\* tells whether a call on it raised an error.
Teardown ==
  [tracks |-> tracks, bufs |-> audioBuffers, src |-> sourceNodes, gn |-> gainNodes,
   vs |-> voices, refs |-> audioRefs, handlers |-> loopHandlers, playing |-> elPlaying,
   time |-> elTime, threw |-> FALSE]

\* removeTrack without the test of track at 1294: for an id that is not in
\* the list, track.name at 1323 raises a TypeError after setTracks.
RemoveTrackUnguarded(st, trackId) ==
  IF ~HasTrack(st.tracks, trackId) THEN [st EXCEPT !.threw = TRUE]
  ELSE LET g == IF webAudioSupported THEN StopTrackWebAudio(st, trackId) ELSE st
           trs == SelectSeq(st.tracks, LAMBDA t : t.id # trackId)
       IN [g EXCEPT !.tracks = trs, !.bufs = @ \ {trackId}]

\* removeTrack(trackId) (1292-1327) as a function of that value: nothing
\* happens when no track has the id (1293-1294).
RemoveTrackOn(st, trackId) ==
  IF ~HasTrack(st.tracks, trackId) THEN st
  ELSE LET g == IF webAudioSupported THEN StopTrackWebAudio(st, trackId) ELSE st
           mounted == trackId \in st.refs
           trs == SelectSeq(st.tracks, LAMBDA t : t.id # trackId)
       IN [g EXCEPT !.tracks = trs,
                    !.bufs = IF webAudioSupported THEN @ \ {trackId} ELSE @,
                    !.playing = IF mounted THEN @ \ {trackId} ELSE @,
                    !.time = IF mounted THEN @ \ {trackId} ELSE @,
                    !.refs = Rendered(TRUE, trs, @ \ {trackId}),
                    !.handlers = Rendered(TRUE, trs, @ \ {trackId})]

\* removeTrack(trackId), clicked on the remove button of a listed track.
RemoveTrack(trackId) ==
  /\ ~Returning
  /\ UNCHANGED unitVars
  /\ HasTrack(tracks, trackId)
  /\ LET track == FindTrack(tracks, trackId)
         g == IF webAudioSupported THEN StopTrackWebAudio(Graph, trackId) ELSE Graph
         mounted == trackId \in audioRefs
     IN /\ audioBuffers' = IF webAudioSupported THEN audioBuffers \ {trackId} ELSE audioBuffers
        /\ sourceNodes' = g.src
        /\ gainNodes' = g.gn
        /\ voices' = g.vs
        /\ elPlaying' = IF mounted THEN elPlaying \ {trackId} ELSE elPlaying
        /\ elTime' = IF mounted THEN elTime \ {trackId} ELSE elTime
        /\ revoked' = IF mounted /\ track.url THEN revoked \cup {trackId} ELSE revoked
        /\ tracks' = SelectSeq(tracks, LAMBDA t : t.id # trackId)
        /\ audioRefs' = Rendered(TRUE, tracks', audioRefs \ {trackId})
        /\ loopHandlers' = Rendered(TRUE, tracks', loopHandlers \ {trackId})
        /\ elMuted' = MutedUrlIds(tracks')
  /\ removed' = removed \cup {trackId}
  /\ removedInFlight' = IF InFlight(trackId) > 0
                          THEN removedInFlight \cup {trackId} ELSE removedInFlight
  /\ plays' = [k \in 1..Len(plays) |->
                 IF Awaiting(plays[k]) /\ trackId \in plays[k].ids
                   THEN [plays[k] EXCEPT !.removedDuring = @ \cup {trackId}] ELSE plays[k]]
  /\ UNCHANGED <<nextId, webAudioSupported, ctxState, isPlayingAll, adds, decodable, toggles>>

\* clearAllTracks(): confirm() answered by the user.
ClearAllTracks(confirmed) ==
  /\ ~Returning
  /\ UNCHANGED unitVars
  /\ tracks' = IF confirmed THEN << >> ELSE tracks
  /\ audioRefs' = Rendered(confirmed, tracks', audioRefs)
  /\ loopHandlers' = Rendered(confirmed, tracks', loopHandlers)
  /\ elMuted' = IF confirmed THEN {} ELSE elMuted
  \* an <audio> element taken out of the document is paused by the browser,
  \* where it is: nothing rewinds it
  /\ elPlaying' = IF confirmed THEN elPlaying \ audioRefs ELSE elPlaying
  /\ UNCHANGED <<nextId, webAudioSupported, ctxState, isPlayingAll, audioBuffers,
                 sourceNodes, gainNodes, voices, elTime, adds, plays, decodable,
                 revoked, removed, removedInFlight,
                 toggles>>

\* playAll invocation k returns.
PlayAllReturn(k) ==
  /\ k \in 1..Len(plays)
  /\ plays[k].pc = "returning"
  /\ UNCHANGED unitVars
  /\ plays' = [plays EXCEPT ![k] = DonePlay]
  /\ UNCHANGED <<tracks, nextId, webAudioSupported, ctxState, isPlayingAll, audioBuffers,
                 sourceNodes, gainNodes, voices, audioRefs, loopHandlers, elPlaying,
                 elMuted, elTime, adds, decodable, revoked, removed, removedInFlight, toggles>>

Next ==
  \/ \E inst \in Instruments : AddTrack(inst)
  \/ \E inst \in Instruments : AddTrackDuplicate(inst)
  \/ \E trackId \in TrackIds, hasUrl \in BOOLEAN, dec \in BOOLEAN :
       GenerateSettle(trackId, hasUrl, dec)
  \/ \E trackId \in TrackIds : AddLoadSettle(trackId)
  \/ PlayAll
  \/ \E k \in 1..MaxPlays : ResumeSettle(k)
  \/ \E k \in 1..MaxPlays : PlayLoadSettle(k)
  \/ \E k \in 1..MaxPlays : PlayAllReturn(k)
  \/ StopAll
  \/ \E trackId \in TrackIds : ToggleMute(trackId)
  \/ \E trackId \in TrackIds : RemoveTrack(trackId)
  \/ \E confirmed \in BOOLEAN : ClearAllTracks(confirmed)

Spec == Init /\ [][Next]_vars

\* The component in a browser with or without Web Audio: the Web Audio path
\* of Spec, and the HTML5 fallback of playAll.
InitBothPaths == (InitEngine \/ InitFallback) /\ IdleBatch /\ InitElement /\ IdleDuration
  /\ InitTempoControl /\ IdleFallback /\ InitPage

NextBothPaths ==
  \/ Next
  \/ \E k \in 1..MaxPlays, ok \in BOOLEAN : CanPlaySettle(k, ok)
  \/ \E k \in 1..MaxPlays : PlaySettle(k)
  \/ TimeAdvance

SpecBothPaths == InitBothPaths /\ [][NextBothPaths]_vars

\* A user who only adds tracks and plays, with the scheduling JavaScript
\* guarantees: a continuation runs once the promise it awaits has settled.
\* audioContext.resume() settles and a finished playAll returns; nothing
\* obliges a fetch (generateTrack's, loadAudioBuffer's) to settle, and
\* loadAudioBuffer (880-898) sets no timer that would.
NextAwaits ==
  \/ \E inst \in Instruments : AddTrack(inst)
  \/ \E trackId \in TrackIds, hasUrl \in BOOLEAN, dec \in BOOLEAN :
       GenerateSettle(trackId, hasUrl, dec)
  \/ \E trackId \in TrackIds : AddLoadSettle(trackId)
  \/ PlayAll
  \/ \E k \in 1..MaxPlays : ResumeSettle(k)
  \/ \E k \in 1..MaxPlays : PlayLoadSettle(k)
  \/ \E k \in 1..MaxPlays : PlayAllReturn(k)

FairAwaits ==
  \A k \in 1..MaxPlays : WF_vars(ResumeSettle(k)) /\ WF_vars(PlayAllReturn(k))

SpecAwaits == Init /\ [][NextAwaits]_vars /\ FairAwaits

\* The start batch on its own, for every choice of buffers, mute flags and
\* throwing tracks.  It reads and writes isPlayingAll and the variables of
\* the batch; the engine's other variables are not part of it.
InitStart ==
  InitEngine /\ InitBatch /\ InitElement /\ IdleDuration /\ InitTempoControl /\ IdleFallback /\ InitPage

NextStart == StartTracks

SpecStart == InitStart /\ [][NextStart]_vars

----------------------------------------------------------------------------
\* Source nodes of playAll invocation k that are playing.
Batch(k) == {n \in voices : n.batch = k}

\* The tracks they play.
BatchTracks(k) == {n.track : n \in Batch(k)}

\* C1: synchronized-start barrier.  Whenever a playAll invocation has started
\* a source node, every one of its candidates has been resolved before: its
\* buffer was found cached by the loop, or the loadAudioBuffer the invocation
\* awaited for it has settled.
C1_Barrier ==
  \A k \in 1..Len(plays) :
    plays[k].started # {} => plays[k].resolved = plays[k].ids

\* A playAll that awaited the loads of two candidates, one after the other,
\* and then started a node.
C1_Witness ==
  \E k \in 1..Len(plays) :
    /\ plays[k].pc = "returning"
    /\ plays[k].started # {}
    /\ Cardinality(plays[k].loaded \cup plays[k].failedLoads) = 2

\* C2 as stated: a playAll whose awaited decodes all succeed starts a source
\* node for every one of its N candidates.
C2_StartsAllCandidates ==
  \A k \in 1..Len(plays) :
    (plays[k].pc = "returning" /\ ~plays[k].alerted /\ plays[k].failedLoads = {})
      => plays[k].started = plays[k].ids

\* C2, amended: a playAll whose awaited decodes all succeed and none of whose
\* candidates is removed while it is awaiting starts a source node for every
\* one of its N candidates, and the nodes of an invocation all appear in one
\* step, the one that ends the invocation.
C2_StartsAllUnlessRemoved ==
  /\ [](\A k \in 1..Len(plays) :
          (/\ plays[k].pc = "returning"
           /\ ~plays[k].alerted
           /\ plays[k].failedLoads = {}
           /\ plays[k].removedDuring = {})
            => /\ plays[k].started = plays[k].ids
               /\ BatchTracks(k) = plays[k].ids)
  /\ [][\A k \in 1..MaxPlays :
          ~(BatchTracks(k)' \subseteq BatchTracks(k))
            => /\ BatchTracks(k) = {}
               /\ k \in 1..Len(plays')
               /\ plays'[k].pc = "returning"
               /\ (k \in 1..Len(plays) => plays[k].pc \in {"resume", "load"})
               /\ BatchTracks(k)' = plays'[k].started]_vars

\* A playAll over two candidates, after at least one decode it awaited, has
\* started both.
C2_Witness ==
  \E k \in 1..Len(plays) :
    /\ plays[k].pc = "returning"
    /\ Cardinality(plays[k].ids) = 2
    /\ plays[k].loaded # {}
    /\ plays[k].failedLoads = {}
    /\ plays[k].removedDuring = {}
    /\ Cardinality(Batch(k)) = 2

\* C3: a track removed while a fetch/decode for it was in flight has no
\* playing source node afterwards (removeTrack stopped the one it had).
C3_RemovedNeverStarts ==
  \A n \in voices : n.track \notin removedInFlight

\* C4: a playAll during whose awaits stopAll was invoked starts no source node.
C4_StopDiscardsPending ==
  \A k \in 1..Len(plays) :
    plays[k].stopped => plays[k].started = {}

C6_SingleInFlight ==
  \A trackId \in TrackIds : InFlight(trackId) <= 1

\* C7: once removeTrack(id) has run, audioBuffersRef holds no entry for id.
C7_RemovedNeverCached ==
  removed \cap audioBuffers = {}

\* C8: at most one started-and-not-stopped source node per track id.
C8_OneVoicePerTrack ==
  \A n1 \in voices, n2 \in voices : n1.track = n2.track => n1 = n2

\* A playAll has restarted a track that already had a playing source node.
C8_Witness ==
  \E k \in 1..Len(plays) :
    /\ plays[k].pc = "returning"
    /\ plays[k].restarted # {}

\* C9: after stopAll no Web Audio source node is playing and isPlayingAll is
\* false.
C9_StopAllStopsEverything ==
  [][StopAll => (voices' = {} /\ ~isPlayingAll')]_vars

\* C10: toggleMute(id) creates and stops no source node, leaves the other
\* voices' gain and the other tracks' flags as they were, and sets the gain of
\* track id's voice, if it has one, to 0 when the track is now muted and to 1
\* when it is not.
C10_ToggleMuteIsolated ==
  [][\A trackId \in TrackIds :
       ToggleMute(trackId)
         => /\ {[track |-> n.track, batch |-> n.batch] : n \in voices'}
                 = {[track |-> n.track, batch |-> n.batch] : n \in voices}
            /\ \A n \in voices : n.track # trackId => n \in voices'
            /\ \A i \in 1..Len(tracks) :
                 tracks[i].id # trackId => tracks'[i] = tracks[i]
            /\ \A n \in voices' :
                 n.track = trackId
                   => n.gain = IF FindTrack(tracks', trackId).muted THEN 0 ELSE 1]_vars

\* One track's <audio> element on its own, in a browser with or without Web
\* Audio.
InitAudioElement == (InitEngine \/ InitFallback) /\ IdleBatch /\ InitElement /\ IdleDuration
  /\ InitTempoControl /\ IdleFallback /\ InitPage

NextAudioElement ==
  \/ ElMount
  \/ ElRerender
  \/ ElUserPlay
  \/ ElPlayAll
  \/ \E ok \in BOOLEAN : ElCanPlay(ok)
  \/ ElTimeAdvance
  \/ ElStopAll
  \/ ElRemoveTrack

SpecAudioElement == InitAudioElement /\ [][NextAudioElement]_vars

\* calculateOptimalDuration on its own.
InitTempo ==
  InitEngine /\ IdleBatch /\ InitElement /\ InitDuration /\ InitTempoControl /\ IdleFallback /\ InitPage

NextTempo == Calculate

SpecTempo == InitTempo /\ [][NextTempo]_vars

\* calculateOptimalDuration on its own, over every integer tempo up to MaxBPM
\* in size.
InitAnyTempo ==
  InitEngine /\ IdleBatch /\ InitElement /\ InitAnyDuration /\ InitTempoControl /\ IdleFallback /\ InitPage

NextAnyTempo == Calculate

SpecAnyTempo == InitAnyTempo /\ [][NextAnyTempo]_vars

\* C11: every source node started by playTrackWebAudio loops, begins at
\* offset 0, and has the loop region [0, MAX_LOOP_DURATION] when its buffer
\* is longer than MAX_LOOP_DURATION and no loopStart/loopEnd restriction
\* (both 0: the whole buffer) when it is not.
C11_LoopClamp ==
  \A n \in sources :
    /\ n.loop
    /\ n.offset = 0
    /\ n.loopStart = 0
    /\ n.duration > MAX_LOOP_DURATION => n.loopEnd = MAX_LOOP_DURATION
    /\ n.duration <= MAX_LOOP_DURATION => n.loopEnd = 0

\* A batch has started a clip longer than the maximum, one of exactly the
\* maximum and a shorter one.
C11_Witness ==
  /\ batchPc = "done"
  /\ \E a \in sources, b \in sources, c \in sources :
       /\ a.duration > MAX_LOOP_DURATION
       /\ b.duration = MAX_LOOP_DURATION
       /\ c.duration < MAX_LOOP_DURATION

\* C12: when a playAll that had candidates completes with every candidate's
\* load failed and no voice started (none playing at all), isPlayingAll is
\* false.
C12_NoVoiceReturnsIdle ==
  \A k \in 1..Len(plays) :
    (/\ plays[k].pc = "returning"
     /\ plays[k].ids # {}
     /\ plays[k].failedLoads = plays[k].ids
     /\ plays[k].started = {}
     /\ voices = {})
      => ~isPlayingAll

\* C13: playAll invoked when no track has a url alerts and changes nothing
\* of the playback state: voices, source and gain nodes, buffers, the <audio>
\* elements' paused, position and muted state, their loop handlers, the audio
\* context's state and isPlayingAll.
C13_NoTrackNoOp ==
  [][(PlayAll /\ UrlIds(tracks) = {})
       => /\ plays'[Len(plays')].alerted
          /\ UNCHANGED <<voices, sourceNodes, gainNodes, audioBuffers, elPlaying, elTime,
                         elMuted, loopHandlers, ctxState, isPlayingAll>>]_vars

\* playAll has alerted while voices of cleared tracks were playing.
C13_Witness ==
  \E k \in 1..Len(plays) :
    /\ plays[k].alerted
    /\ voices # {}
    /\ isPlayingAll

\* C14: when playTrackWebAudio throws for one candidate of the start batch,
\* every other candidate with a decoded buffer has a started source node,
\* whatever its position, and isPlayingAll stays true.
C14_StartFailureIsolated ==
  (/\ batchPc = "done"
   /\ Cardinality({id \in startThrows : bufferDurations[id] # NoBuffer}) = 1)
    => /\ \A id \in BatchIds :
            (bufferDurations[id] # NoBuffer /\ id \notin startThrows)
              => \E n \in sources : n.track = id
       /\ isPlayingAll

\* C15: a playAll on the Web Audio path that is awaiting (the context's
\* resume or a candidate's load) eventually stops awaiting.
C15_LeavesPreparing ==
  \A k \in 1..MaxPlays :
    (k <= Len(plays) /\ plays[k].pc \in {"resume", "load"})
      ~> (k <= Len(plays) /\ plays[k].pc \notin {"resume", "load"})

\* C16: after a confirmed clearAllTracks no source node is playing, no
\* decoded buffer is left in audioBuffersRef and no <audio> element is playing.
C16_ClearReleases ==
  [][(ClearAllTracks(TRUE) /\ tracks # << >>)
       => (voices' = {} /\ audioBuffers' = {} /\ elPlaying' = {})]_vars

\* C17: no source node is playing while an <audio> element started by playAll
\* is playing, and after stopAll every listed track with a url has its
\* element paused at position 0 and no source node, playing or registered.
C17_StrategiesExclusive ==
  /\ [](voices # {} => elPlaying = {})
  /\ [][StopAll
          => \A id \in UrlIds(tracks') :
               /\ id \notin elPlaying'
               /\ id \notin elTime'
               /\ sourceNodes'[id] = NoNode
               /\ \A n \in voices' : n.track # id]_vars

\* stopAll ran while the only playAll, in the fallback, was awaiting the play
\* promises of elements it had started: they are paused.
C17_Witness ==
  /\ Len(plays) = 1
  /\ plays[1].pc = "played"
  /\ plays[1].stopped
  /\ plays[1].els # {}
  /\ plays[1].els \subseteq UrlIds(tracks)
  /\ elPlaying = {}

\* C18: after stopAll or removeTrack has acted on the element it is paused at
\* position 0 with no 'ended' and no 'timeupdate' listener attached, and the
\* element never carries more than one listener of either type.
C18_ListenersRemoved ==
  [][/\ (ElStopAll \/ ElRemoveTrack)
          => /\ audioEl'.paused
             /\ ~audioEl'.time
             /\ audioEl'.ended = 0
             /\ audioEl'.timeupdate = 0
     /\ audioEl'.ended <= 1
     /\ audioEl'.timeupdate <= 1]_vars

\* C19: calculateOptimalDuration(bpm) is bars * 240 / bpm seconds rounded to
\* the millisecond, bars being the smallest whole number of bars that last
\* at least 10 s; 120 bpm gives 5 bars and 10.000 s, 90 bpm 4 bars and
\* 10.667 s.
C19_SmallestWholeBars ==
  optimalDuration # NoDuration
    => LET bars == optimalDuration.minBars
           ms == optimalDuration.durationSeconds
       IN /\ bars * 240 >= 10 * bpm
          /\ (bars - 1) * 240 < 10 * bpm
          /\ (2 * ms - 1) * bpm <= 2 * bars * 240000
          /\ 2 * bars * 240000 < (2 * ms + 1) * bpm
          /\ bpm = 120 => (bars = 5 /\ ms = 10000)
          /\ bpm = 90 => (bars = 4 /\ ms = 10667)

\* The duration for 90 bpm has been calculated.
C19_Witness ==
  /\ bpm = 90
  /\ optimalDuration = [minBars |-> 4, durationSeconds |-> 10667]

\* C20: the calculated duration lies between MIN_LOOP_DURATION and
\* MAX_LOOP_DURATION.
C20_WithinLoopWindow ==
  optimalDuration # NoDuration
    => /\ MIN_LOOP_DURATION <= optimalDuration.durationSeconds
       /\ optimalDuration.durationSeconds <= MAX_LOOP_DURATION

\* A user who adds tracks, plays and changes the tempo.
NextTempoControl ==
  \/ NextAwaits
  \/ \E newBPM \in NewTempi(currentBPM), confirmed \in BOOLEAN : ChangeBPM(newBPM, confirmed)

SpecTempoControl == Init /\ [][NextTempoControl]_vars

\* generateTrack's request after tempo changes.
NextGenerate ==
  \/ \E newBPM \in NewTempi(currentBPM), confirmed \in BOOLEAN : ChangeBPM(newBPM, confirmed)
  \/ GenerateTrack

SpecGenerate == Init /\ [][NextGenerate]_vars

\* A user who adds tracks with the instrument buttons and with voice
\* commands, and removes tracks.
NextVoice ==
  \/ \E inst \in Instruments : AddTrack(inst)
  \/ \E inst \in Instruments : AddTrackDuplicate(inst)
  \/ \E inst \in Instruments : VoiceAddTrack(inst)
  \/ \E trackId \in TrackIds, hasUrl \in BOOLEAN, dec \in BOOLEAN :
       GenerateSettle(trackId, hasUrl, dec)
  \/ \E trackId \in TrackIds, hasUrl \in BOOLEAN, dec \in BOOLEAN :
       VoiceGenerateSettle(trackId, hasUrl, dec)
  \/ \E trackId \in TrackIds : AddLoadSettle(trackId)
  \/ \E trackId \in TrackIds : RemoveTrack(trackId)

SpecVoice == Init /\ [][NextVoice]_vars

\* The HTML5 fallback of playAll with each element's readiness.
InitFallbackUnit ==
  /\ InitFallback /\ IdleBatch /\ InitElement /\ IdleDuration /\ InitTempoControl
  /\ InitFallbackStart /\ InitPage

NextFallback ==
  \/ FallbackPrepare
  \/ \E e \in BatchIds : FallbackCanPlayThrough(e)
  \/ \E e \in BatchIds : FallbackTimeout(e)
  \/ \E e \in BatchIds, ok \in BOOLEAN : FallbackPlaySettle(e, ok)

SpecFallback == InitFallbackUnit /\ [][NextFallback]_vars

\* The component of src/src/app/page.tsx: adds and mutes.
NextPage ==
  \/ \E inst \in PageInstruments : PageAddTrack(inst)
  \/ \E inst \in PageInstruments : PageAddTrackDuplicate(inst)
  \/ \E c \in pageCalls, hasUrl \in BOOLEAN : PageGenerateSettle(c, hasUrl)
  \/ \E i \in 1..(NumPageInstruments + 1) : PageToggleMute(i)

SpecPage == Init /\ [][NextPage]_vars

\* C21: calculateOptimalDuration ends with an InvalidTempo error and no
\* duration for every bpm <= 0, and with a duration and no error for every
\* bpm > 0.
C21_InvalidTempo ==
  completion # "none"
    => /\ bpm <= 0 => (completion = "InvalidTempo" /\ optimalDuration = NoDuration)
       /\ bpm > 0 => completion = "number"

\* C22: no two tracks of the list have the same name, whether they were
\* added by the buttons or by voice commands and whether or not an earlier
\* generation is pending, and no step starts a generation for a name that is
\* already in the list.
C22_Deduplicated ==
  /\ [](\A i, j \in 1..Len(tracks) : tracks[i].name = tracks[j].name => i = j)
  /\ [][\A id \in TrackIds :
         (adds[id] = "none" /\ adds'[id] # "none")
           => \A i \in 1..Len(tracks) : tracks[i].name # tracks'[Len(tracks')].name]_vars

\* C25: a second stopTrackWebAudio on the same track, and a second
\* removeTrack with the same id, leave the track list, the buffer cache, the
\* source and gain maps, the voices, the element refs and the loop handlers
\* as the first call left them and raise no error, for every id, also one
\* with nothing cached or playing; the removeTrack step of the component is
\* that function.
C25_TeardownIdempotent ==
  /\ [](\A trackId \in TrackIds :
         LET stopped == StopTrackWebAudio(Teardown, trackId)
             removedOnce == RemoveTrackOn(Teardown, trackId)
         IN /\ StopTrackWebAudio(stopped, trackId) = stopped
            /\ ~stopped.threw
            /\ RemoveTrackOn(removedOnce, trackId) = removedOnce
            /\ ~removedOnce.threw)
  /\ [][\A trackId \in TrackIds :
         RemoveTrack(trackId) => Teardown' = RemoveTrackOn(Teardown, trackId)]_vars

\* A track with a playing voice and a decoded buffer was removed while
\* another track's voice keeps playing: a second removeTrack or
\* stopTrackWebAudio for it finds nothing cached or playing.
C25_Witness ==
  \E trackId \in removed :
    /\ ~HasTrack(tracks, trackId)
    /\ sourceNodes[trackId] = NoNode
    /\ trackId \notin audioBuffers
    /\ \E n \in voices : n.track # trackId /\ sourceNodes[n.track] = n.batch

\* C26: all active source nodes were started in the same batch of one
\* playAll.
C26_OneBatch ==
  \A n, m \in voices : n.batch = m.batch

\* C27: every active voice of a listed track has gain 0 when the track's
\* muted flag is true and gain 1 when it is false.
C27_GainMatchesMuted ==
  \A n \in voices :
    HasTrack(tracks, n.track)
      => n.gain = IF FindTrack(tracks, n.track).muted THEN 0 ELSE 1

\* C28: whenever a Web Audio source node is active, isPlayingAll is true.
C28_VoicesImplyPlayingAll ==
  voices # {} => isPlayingAll

\* C23: a changeBPM call leaves the track list, the decoded buffers, the
\* source and gain nodes and the active voices as they were and starts no
\* generation or decode; with a url track in the list it changes currentBPM
\* only when confirm() was accepted, and a declined confirm() leaves
\* currentBPM and the history unchanged.
C23_ChangeBPMFrame ==
  [][(\E newBPM \in NewTempi(currentBPM), confirmed \in BOOLEAN : ChangeBPM(newBPM, confirmed))
       => /\ UNCHANGED <<tracks, audioBuffers, sourceNodes, gainNodes, voices, adds, plays>>
          /\ (UrlIds(tracks) # {} /\ currentBPM' # currentBPM) => confirmAnswer' = "accepted"
          /\ confirmAnswer' = "declined" => UNCHANGED <<currentBPM, history>>]_vars

\* The tempo was changed, after an accepted confirm(), while a voice of a
\* decoded track was playing, and a later confirm() was declined.
C23_Witness ==
  /\ voices # {}
  /\ audioBuffers # {}
  /\ Len(history) = 1
  /\ history[1].text = "Changed tempo to"
  /\ currentBPM = 110
  /\ confirmAnswer = "declined"

\* C24: the music_length_ms that generateTrack sends is
\* calculateOptimalDuration(currentBPM) x 1000, for every currentBPM.
C24_LengthFromBPM ==
  generation # NoGeneration
    => generation.music_length_ms
         = CalculateOptimalDuration(generation.bpm, DefaultBeats).durationSeconds

\* C29: in a fallback playAll, play() is called only when every prepared
\* element has reported canplaythrough or had readyState >= 4, and then on
\* every prepared element; if an element's 5 s timer fired before it was
\* ready, no element receives play().
C29_AllOrNothing ==
  /\ playCommands # {}
       => /\ \A e \in AudioElements(elementState) : elementState[e] = "resolved"
          /\ playCommands = AudioElements(elementState)
  /\ (fallbackPc = "failed" \/ \E e \in BatchIds : elementState[e] = "rejected")
       => /\ playCommands = {}
          /\ \A e \in BatchIds : playResults[e] = "none"

\* Two elements became ready and the third timed out: nothing was played.
C29_Witness ==
  /\ fallbackPc = "failed"
  /\ \E e \in BatchIds : elementState[e] = "rejected"
  /\ Cardinality({e \in BatchIds : elementState[e] = "resolved"}) = 2
  /\ playCommands = {}

\* C30: in src/src/app/page.tsx, once the addTrack calls in flight have
\* completed, the list holds the track of every completed call and the
\* tracks it had before, also when a call was made before an earlier call's
\* generateTrack resolved.
C30_NoLostTrack ==
  pageCalls = {}
    => /\ Drums \in PageNames(pageTracks)
       /\ \A inst \in pageAdded : inst \in PageNames(pageTracks)

====
